--------------------------- MODULE Spec2Model ---------------------------
(***************************************************************************)
(* build_tools/fileset_tool.py: the ComponentDefaults registry, the        *)
(* `artifact` command (do_artifact) and the `artifact-archive` command     *)
(* (do_artifact_archive).                                                  *)
(*                                                                         *)
(* Python strings are sequences of one-character strings, so that joining, *)
(* line splitting, path splitting, lower-casing and glob matching are      *)
(* computed and not assumed.  A value that may be absent, a bool, a str or *)
(* a list of str is a tagged record [t |-> tag, v |-> value].              *)
(***************************************************************************)
EXTENDS Integers, Sequences, FiniteSets, TLC

VARIABLES
    pc,          \* "load" (module body running), "main", "returned", "raised"
    loaded,      \* number of module-level statements of lines 68-124 executed
    ALL,         \* ComponentDefaults.ALL: name -> [includes, excludes]
    system,      \* platform.system() of the running host
    root_dir,    \* files below args.root_dir, each a sequence of path segments
    call,        \* the command dispatched by main() and its arguments
    output_dir,  \* args.output_dir: [files, manifest] as left by do_artifact
    matchers,    \* the PatternMatcher constructions of the call, in order
    archive      \* the entries added to the archive of the call, in order

vars == <<pc, loaded, ALL, system, root_dir, call, output_dir, matchers, archive>>

-----------------------------------------------------------------------------
(* Bounds of the model. *)

MaxBaseDirs == 2      \* base directories declared for one component
MaxArtifacts == 2     \* artifact directories given to artifact-archive
MaxManifestLen == 2   \* relative paths of a manifest in the round trip

-----------------------------------------------------------------------------
(* Strings. *)

NL == "\n"
CR == "\r"
Slash == "/"
Star == "*"

\* The characters of the model in code point order.
Alphabet ==
    <<"\n", "\r", "*", "-", ".", "/",
      "D", "I", "L", "N", "U", "W", "X", "_",
      "a", "b", "c", "d", "e", "f", "g", "h", "i", "k", "l", "m", "n", "o",
      "p", "r", "s", "t", "u", "w", "x", "y">>

Code(c) == CHOOSE i \in 1..Len(Alphabet) : Alphabet[i] = c

UpperChars == <<"D", "I", "L", "N", "U", "W", "X">>
LowerChars == <<"d", "i", "l", "n", "u", "w", "x">>

LowerChar(c) ==
    IF \E i \in 1..Len(UpperChars) : UpperChars[i] = c
    THEN LowerChars[CHOOSE i \in 1..Len(UpperChars) : UpperChars[i] = c]
    ELSE c

\* str.lower()
Lower(s) == [i \in 1..Len(s) |-> LowerChar(s[i])]

\* s < t in Python's string order
RECURSIVE StrLess(_, _)
StrLess(s, t) ==
    IF t = <<>> THEN FALSE
    ELSE IF s = <<>> THEN TRUE
    ELSE IF Head(s) = Head(t) THEN StrLess(Tail(s), Tail(t))
    ELSE Code(Head(s)) < Code(Head(t))

RECURSIVE Flatten(_)
Flatten(ss) == IF ss = <<>> THEN <<>> ELSE Head(ss) \o Flatten(Tail(ss))

\* sep.join(parts)
RECURSIVE Join(_, _)
Join(sep, parts) ==
    IF parts = <<>> THEN <<>>
    ELSE IF Len(parts) = 1 THEN parts[1]
    ELSE parts[1] \o sep \o Join(sep, Tail(parts))

\* s.split(sep) for a one-character separator: the pieces between separators,
\* empty pieces included.
RECURSIVE Split(_, _)
Split(s, sep) ==
    LET at == {i \in 1..Len(s) : s[i] = sep}
    IN  IF at = {} THEN <<s>>
        ELSE LET k == CHOOSE i \in at : \A j \in at : i <= j
             IN  <<SubSeq(s, 1, k - 1)>> \o Split(SubSeq(s, k + 1, Len(s)), sep)

NonEmpty(x) == x # <<>>

\* The parts of pathlib.PurePosixPath(s) for a relative s: empty segments and
\* "." segments are dropped.
PathParts(s) ==
    SelectSeq(Split(s, Slash), LAMBDA seg : seg # <<>> /\ seg # <<".">>)

IsPrefix(p, q) == Len(p) <= Len(q) /\ SubSeq(q, 1, Len(p)) = p

\* str.splitlines(): "\n", "\r" and "\r\n" end a line; no empty last line is
\* produced for a text that ends with a line break.
RECURSIVE SplitLines(_)
SplitLines(text) ==
    LET at == {i \in 1..Len(text) : text[i] \in {NL, CR}}
    IN
    IF text = <<>> THEN <<>>
    ELSE IF at = {} THEN <<text>>
    ELSE LET k == CHOOSE i \in at : \A j \in at : i <= j
             n == IF text[k] = CR /\ k < Len(text) /\ text[k + 1] = NL
                  THEN k + 1 ELSE k
         IN  <<SubSeq(text, 1, k - 1)>> \o SplitLines(SubSeq(text, n + 1, Len(text)))

RECURSIVE SetToSeq(_)
SetToSeq(S) ==
    IF S = {} THEN <<>>
    ELSE LET x == CHOOSE y \in S : TRUE IN <<x>> \o SetToSeq(S \ {x})

Range(s) == {s[i] : i \in 1..Len(s)}

-----------------------------------------------------------------------------
(* Descriptor values: absent, bool, str or list of str. *)

None == [t |-> "none"]
Bool(b) == [t |-> "bool", v |-> b]
Str(s) == [t |-> "str", v |-> s]
List(l) == [t |-> "list", v |-> l]

\* Python truth value: None, False, "" and [] are false.
Truthy(x) ==
    CASE x.t = "none" -> FALSE
      [] x.t = "bool" -> x.v
      [] x.t = "str" -> x.v # <<>>
      [] x.t = "list" -> x.v # <<>>

-----------------------------------------------------------------------------
(* evaluate_optional *)

\* evaluate_optional comparing the names without lower-casing them.
evaluate_optional_case_sensitive(optional_value) ==
    IF optional_value.t = "none" THEN FALSE
    ELSE LET as_list == IF optional_value.t = "str"
                        THEN List(<<optional_value.v>>) ELSE optional_value
         IN  IF as_list.t = "list"
             THEN LET system_name == Lower(system)
                  IN  \E i \in 1..Len(as_list.v) : as_list.v[i] = system_name
             ELSE Truthy(as_list)

\* evaluate_optional taking the truth value of a name or a list of names.
evaluate_optional_truthy(optional_value) == Truthy(optional_value)

evaluate_optional(optional_value) ==
    IF optional_value.t = "none" THEN FALSE
    ELSE LET as_list == IF optional_value.t = "str"
                        THEN List(<<optional_value.v>>) ELSE optional_value
         IN  IF as_list.t = "list"
             THEN LET system_name == Lower(system)
                  IN  \E i \in 1..Len(as_list.v) : Lower(as_list.v[i]) = system_name
             ELSE Truthy(as_list)

\* _dup_list_or_str without the str case: list(v) of a str is its characters.
dup_list_or_str_chars(v) ==
    IF ~Truthy(v) THEN <<>>
    ELSE IF v.t = "str" THEN [i \in 1..Len(v.v) |-> <<v.v[i]>>]
    ELSE v.v

\* _dup_list_or_str
dup_list_or_str(v) ==
    IF ~Truthy(v) THEN <<>>
    ELSE IF v.t = "str" THEN <<v.v>>
    ELSE v.v

-----------------------------------------------------------------------------
(* _therock_utils.pattern_match: the pattern language and PatternMatcher. *)

\* One pattern segment against one path segment: "*" matches any run of
\* characters of the segment, every other character matches itself.
RECURSIVE MatchSegment(_, _)
MatchSegment(p, s) ==
    IF p = <<>> THEN s = <<>>
    ELSE IF Head(p) = Star
         THEN MatchSegment(Tail(p), s) \/ (s # <<>> /\ MatchSegment(p, Tail(s)))
         ELSE s # <<>> /\ Head(s) = Head(p) /\ MatchSegment(Tail(p), Tail(s))

\* Segment-wise match: a "**" segment matches zero or more path segments.
RECURSIVE MatchSegments(_, _)
MatchSegments(ps, ss) ==
    IF ps = <<>> THEN ss = <<>>
    ELSE IF Head(ps) = <<Star, Star>>
         THEN MatchSegments(Tail(ps), ss) \/ (ss # <<>> /\ MatchSegments(ps, Tail(ss)))
         ELSE /\ ss # <<>>
              /\ MatchSegment(Head(ps), Head(ss))
              /\ MatchSegments(Tail(ps), Tail(ss))

\* A pattern and a relative path are compared segment by segment.
GlobMatch(pattern, relpath) == MatchSegments(Split(pattern, Slash), Split(relpath, Slash))

MatchesAny(patterns, relpath) ==
    \E i \in 1..Len(patterns) : GlobMatch(patterns[i], relpath)

\* PatternSet: selected iff (any include and no exclude) or any force-include.
Selected(pm, relpath) ==
    \/ MatchesAny(pm.includes, relpath) /\ ~MatchesAny(pm.excludes, relpath)
    \/ MatchesAny(pm.force_includes, relpath)

PatternMatcher(includes, excludes, force_includes) ==
    [includes |-> includes, excludes |-> excludes, force_includes |-> force_includes]

\* Path.exists() of the directory `dir` in a tree of files.
DirExists(tree, dir) ==
    dir = <<>> \/ \E f \in tree : IsPrefix(dir, f) /\ Len(f) > Len(dir)

\* The files below `dir`, as paths relative to it.
FilesBelow(tree, dir) ==
    {SubSeq(f, Len(dir) + 1, Len(f)) : f \in {g \in tree : IsPrefix(dir, g) /\ Len(g) > Len(dir)}}

RelpathStr(parts) == Join(<<Slash>>, parts)

\* The patterns of a list split into segments once, and their match against
\* the segments of a relative path.
Compiled(patterns) == [i \in 1..Len(patterns) |-> Split(patterns[i], Slash)]

AnyMatch(compiled, parts) == \E i \in 1..Len(compiled) : MatchSegments(compiled[i], parts)

\* PatternMatcher.add_basedir + matches(): the selected files of the base
\* directory, as relative path segments (the segments of Selected's relpath).
Matches(pm, tree, basedir) ==
    LET inc == Compiled(pm.includes)
        exc == Compiled(pm.excludes)
        force == Compiled(pm.force_includes)
    IN  {r \in FilesBelow(tree, basedir) :
            \/ AnyMatch(inc, r) /\ ~AnyMatch(exc, r)
            \/ AnyMatch(force, r)}

\* What copy_to writes: each match goes to destdir/(destprefix + relpath).
Written(matched, basedir, destprefix) ==
    {[dest |-> PathParts(destprefix \o RelpathStr(r)), src |-> basedir \o r] :
        r \in matched}

\* PatternMatcher.copy_to: a written destination replaces what was there; with
\* remove_dest the destination directory is emptied first.
copy_to(dest_files, written, remove_dest) ==
    LET kept == IF remove_dest THEN {} ELSE dest_files
    IN  {e \in kept : \A w \in written : w.dest # e.dest} \cup written

\* The order in which the directory walk of add_basedir reaches two files
\* when os.scandir yields the names of a directory by ascending `rank`.
RECURSIVE WalkBefore(_, _, _)
WalkBefore(rank, p, q) ==
    IF p = <<>> \/ q = <<>> THEN q # <<>>
    ELSE IF Head(p) = Head(q) THEN WalkBefore(rank, Tail(p), Tail(q))
    ELSE rank[Head(p)] < rank[Head(q)]

\* PatternMatcher.all after add_basedir(source_dir): every file below it in
\* walk order.
WalkAll(tree, dir, rank) ==
    SortSeq(SetToSeq(FilesBelow(tree, dir)), LAMBDA p, q : WalkBefore(rank, p, q))

-----------------------------------------------------------------------------
(* The default patterns of lines 68-111. *)

P_build_id_debug == <<".", "b", "u", "i", "l", "d", "-", "i", "d", "/", "*", "*", "/", "*", ".", "d", "e", "b", "u", "g">>
P_a == <<"*", "*", "/", "*", ".", "a">>
P_lib == <<"*", "*", "/", "*", ".", "l", "i", "b">>
P_cmake == <<"*", "*", "/", "c", "m", "a", "k", "e", "/", "*", "*">>
P_include == <<"*", "*", "/", "i", "n", "c", "l", "u", "d", "e", "/", "*", "*">>
P_modulefiles == <<"*", "*", "/", "s", "h", "a", "r", "e", "/", "m", "o", "d", "u", "l", "e", "f", "i", "l", "e", "s", "/", "*", "*">>
P_pkgconfig == <<"*", "*", "/", "p", "k", "g", "c", "o", "n", "f", "i", "g", "/", "*", "*">>
P_dll == <<"*", "*", "/", "*", ".", "d", "l", "l">>
P_dylib == <<"*", "*", "/", "*", ".", "d", "y", "l", "i", "b">>
P_dylib_v == <<"*", "*", "/", "*", ".", "d", "y", "l", "i", "b", ".", "*">>
P_so == <<"*", "*", "/", "*", ".", "s", "o">>
P_so_v == <<"*", "*", "/", "*", ".", "s", "o", ".", "*">>
P_doc == <<"*", "*", "/", "s", "h", "a", "r", "e", "/", "d", "o", "c", "/", "*", "*">>
ManifestName == <<"a", "r", "t", "i", "f", "a", "c", "t", "_", "m", "a", "n", "i", "f", "e", "s", "t", ".", "t", "x", "t">>

-----------------------------------------------------------------------------
(* ComponentDefaults *)

EmptyRegistry == [n \in {} |-> 0]

\* ComponentDefaults.__init__: the new object, the registry after it, and
\* whether KeyError was raised.
ComponentDefaults_init(all, name, includes, excludes) ==
    LET self == [includes |-> includes, excludes |-> excludes]
    IN  IF name # ""
        THEN IF name \in DOMAIN all
             THEN [raised |-> TRUE, all |-> all, obj |-> self]
             ELSE [raised |-> FALSE, all |-> all @@ (name :> self), obj |-> self]
        ELSE [raised |-> FALSE, all |-> all, obj |-> self]

\* ComponentDefaults.get
ComponentDefaults_get(all, name) ==
    IF name \in DOMAIN all
    THEN [raised |-> FALSE, all |-> all, obj |-> all[name]]
    ELSE ComponentDefaults_init(all, name, <<>>, <<>>)

\* The constructions of lines 68-111.
Constructions ==
    << [op |-> "new", name |-> "dbg", includes |-> <<P_build_id_debug>>, excludes |-> <<>>],
       [op |-> "new", name |-> "dev",
        includes |-> <<P_a, P_lib, P_cmake, P_include, P_modulefiles, P_pkgconfig>>,
        excludes |-> <<>>],
       [op |-> "new", name |-> "lib",
        includes |-> <<P_dll, P_dylib, P_dylib_v, P_so, P_so_v>>, excludes |-> <<>>],
       [op |-> "new", name |-> "run", includes |-> <<>>, excludes |-> <<>>],
       [op |-> "new", name |-> "doc", includes |-> <<P_doc>>, excludes |-> <<>>] >>

\* The extensions of lines 116-124.
Extensions ==
    << [op |-> "extend", dst |-> "dev", src |-> "lib"],
       [op |-> "extend", dst |-> "dev", src |-> "run"],
       [op |-> "extend", dst |-> "dev", src |-> "doc"],
       [op |-> "extend", dst |-> "lib", src |-> "dev"],
       [op |-> "extend", dst |-> "lib", src |-> "run"],
       [op |-> "extend", dst |-> "lib", src |-> "doc"],
       [op |-> "extend", dst |-> "run", src |-> "dev"],
       [op |-> "extend", dst |-> "run", src |-> "lib"],
       [op |-> "extend", dst |-> "run", src |-> "doc"] >>

\* The module body with line 118 reading "dbg" for "doc".
ModuleBody_dbg_for_doc == Constructions \o [Extensions EXCEPT ![3].src = "dbg"]

\* The module-level statements of lines 68-124, in order.
ModuleBody == Constructions \o Extensions

\* The extension appending to the includes of dst.
ExtendIncludes(all, dst, src) ==
    LET d == ComponentDefaults_get(all, dst)
        s == ComponentDefaults_get(d.all, src)
    IN  IF dst \in DOMAIN s.all
        THEN [s.all EXCEPT ![dst].includes = @ \o s.obj.includes]
        ELSE s.all

\* ComponentDefaults.get(dst).excludes.extend(ComponentDefaults.get(src).includes)
ExtendExcludes(all, dst, src) ==
    LET d == ComponentDefaults_get(all, dst)
        s == ComponentDefaults_get(d.all, src)
    IN  IF dst \in DOMAIN s.all
        THEN [s.all EXCEPT ![dst].excludes = @ \o s.obj.includes]
        ELSE s.all

\* The lookup through ComponentDefaults.get, which registers a missing name.
DefaultsFor_get(all, component_name) ==
    LET found == ComponentDefaults_get(all, component_name)
    IN  [all |-> found.all, obj |-> found.obj]

\* ComponentDefaults.ALL.get(component_name, ComponentDefaults()) of lines 205
\* and 212: the fallback object is constructed without a name.
DefaultsFor(all, component_name) ==
    LET fallback == ComponentDefaults_init(all, "", <<>>, <<>>)
    IN  [all |-> fallback.all,
         obj |-> IF component_name \in DOMAIN fallback.all
                 THEN fallback.all[component_name] ELSE fallback.obj]

-----------------------------------------------------------------------------
(* The inputs of the model. *)

S_a == <<"a">>
S_b == <<"b">>
S_d == <<"d">>
S_a_b == <<"a", "/", "b">>
S_x_so == <<"x", ".", "s", "o">>
S_y_a == <<"y", ".", "a">>
S_include == <<"i", "n", "c", "l", "u", "d", "e">>
S_Linux == <<"L", "i", "n", "u", "x">>
S_Windows == <<"W", "i", "n", "d", "o", "w", "s">>
S_LINUX == <<"L", "I", "N", "U", "X">>
S_windows == <<"w", "i", "n", "d", "o", "w", "s">>
S_Darwin == <<"D", "a", "r", "w", "i", "n">>
G_all == <<"*", "*">>
G_b_all == <<"b", "/", "*", "*">>
G_star_so == <<"*", ".", "s", "o">>
T_a_ab == <<"a", "\n", "a", "/", "b", "\n">>
T_d_blank_a == <<"d", "\n", "\n", "a", "\n">>
T_empty == <<"\n">>
T_ab_crlf_a == <<"a", "/", "b", "\r", "\n", "a">>
S_a_nl_b == <<"a", "\n", "b">>
S_a_cr == <<"a", "\r">>

\* platform.system() of the hosts.
Systems == {S_Linux, S_Windows}

\* The trees below args.root_dir.
RootTrees ==
    { { <<S_a, S_x_so>>, <<S_a, S_b, S_x_so>>, <<S_a, S_b, S_y_a>>,
        <<S_a, S_include, S_x_so>> },
      { <<S_a, S_x_so>>, <<S_a, S_y_a>>, <<S_d, S_x_so>> } }

\* args.component: the registered names and one that is not registered.
ComponentNames == {"dev", "lib", "run", "doc", "test"}

\* The keys of a component record: "a/b" is missing from one tree and "d"
\* from the other.
Relpaths == {S_a, S_a_b, S_d}

BaseDirRecord(default_patterns, include, exclude, force_include, optional) ==
    [default_patterns |-> default_patterns, include |-> include, exclude |-> exclude,
     force_include |-> force_include, optional |-> optional]

\* The records of a component record: every field absent, scalar and list
\* pattern fields with and without the component defaults, and each kind of
\* `optional` value.
BaseDirRecords ==
    { BaseDirRecord(None, None, None, None, None),
      BaseDirRecord(Bool(TRUE), Str(G_all), List(<<P_a, G_b_all>>), List(<<>>),
                    Bool(FALSE)),
      BaseDirRecord(Bool(FALSE), List(<<G_star_so, G_b_all>>), None, Str(P_a),
                    Str(S_LINUX)),
      BaseDirRecord(Bool(FALSE), Str(<<>>), Str(G_b_all), None, None),
      BaseDirRecord(None, Str(G_all), None, None, Bool(TRUE)),
      BaseDirRecord(None, Str(G_all), None, None, List(<<S_Darwin, S_windows>>)) }

\* descriptor["components"][component_name]: an ordered mapping with distinct
\* keys; the empty one also stands for a component the descriptor lacks.
ComponentRecords ==
    LET Items == [relpath : Relpaths, record : BaseDirRecords]
    IN  UNION { {cr \in [1..n -> Items] :
                    \A i, j \in 1..n : i # j => cr[i].relpath # cr[j].relpath} :
                n \in 0..MaxBaseDirs }

\* The artifact directories on disk that artifact-archive is given.
ArtifactDirs ==
    { [manifest |-> Str(T_a_ab),
       files |-> {<<S_a, S_x_so>>, <<S_a, S_y_a>>, <<S_a, S_b, S_x_so>>}],
      [manifest |-> Str(T_d_blank_a), files |-> {<<S_a, S_y_a>>, <<S_a, S_x_so>>}],
      [manifest |-> Str(T_empty), files |-> {}],
      [manifest |-> None, files |-> {<<S_a, S_x_so>>}],
      [manifest |-> Str(T_ab_crlf_a),
       files |-> {<<S_a, S_b, S_x_so>>, <<S_a, S_b, S_y_a>>, <<S_a, S_x_so>>}] }

\* args.artifact (nargs="+")
ArtifactLists == UNION {[1..n -> ArtifactDirs] : n \in 1..MaxArtifacts}

\* The orders in which os.scandir may yield the names found in the scanned
\* directories (those below a manifest line's directory).
ScanNames == {S_b, S_x_so, S_y_a}
ScanRanks ==
    {r \in [ScanNames -> 1..Cardinality(ScanNames)] :
        \A m, n \in ScanNames : m # n => r[m] # r[n]}

NoCall == [cmd |-> "none"]
NoOutput == [files |-> {}, manifest |-> None]

-----------------------------------------------------------------------------
(* do_artifact *)

\* "\n".join(all_basedir_relpaths) + "\n"
ManifestText(all_basedir_relpaths) == Join(<<NL>>, all_basedir_relpaths) \o <<NL>>

\* copy_to called without a destination prefix.
DestPrefix_none(basedir_relpath) == <<>>

\* destprefix=basedir_relpath + "/"
DestPrefix(basedir_relpath) == basedir_relpath \o <<Slash>>

\* remove_dest=False
ArtifactRemoveDest == FALSE

\* One iteration of the loop of lines 190-225.
ArtifactStep(st, component_name, basedir_relpath, basedir_record) ==
    LET use_default_patterns ==
            IF basedir_record.default_patterns.t = "none" THEN TRUE
            ELSE Truthy(basedir_record.default_patterns)
        basedir == PathParts(basedir_relpath)
        optional == evaluate_optional(basedir_record.optional)
        exists == DirExists(root_dir, basedir)
        inc_defaults == DefaultsFor(st.all, component_name)
        exc_defaults == DefaultsFor(inc_defaults.all, component_name)
        force_includes == dup_list_or_str(basedir_record.force_include)
        includes == dup_list_or_str(basedir_record.include)
                    \o (IF use_default_patterns THEN inc_defaults.obj.includes ELSE <<>>)
        excludes == dup_list_or_str(basedir_record.exclude)
                    \o (IF use_default_patterns THEN exc_defaults.obj.excludes ELSE <<>>)
        pm == PatternMatcher(includes, excludes, force_includes)
        copied == IF exists
                  THEN Written(Matches(pm, root_dir, basedir), basedir,
                               DestPrefix(basedir_relpath))
                  ELSE {}
        files == IF exists THEN copy_to(st.files, copied, ArtifactRemoveDest)
                 ELSE st.files
    IN  IF optional /\ ~exists THEN st
        ELSE [raised |-> ~exists,   \* add_basedir scans a directory that is missing
              all |-> IF use_default_patterns THEN exc_defaults.all ELSE st.all,
              all_basedir_relpaths |-> Append(st.all_basedir_relpaths, basedir_relpath),
              files |-> files,
              matchers |-> Append(st.matchers,
                                  [relpath |-> basedir_relpath, includes |-> includes,
                                   excludes |-> excludes,
                                   force_includes |-> force_includes,
                                   copied |-> copied])]

RECURSIVE ArtifactLoop(_, _, _)
ArtifactLoop(st, component_name, items) ==
    IF items = <<>> \/ st.raised THEN st
    ELSE ArtifactLoop(ArtifactStep(st, component_name, Head(items).relpath,
                                   Head(items).record),
                      component_name, Tail(items))

do_artifact ==
    /\ pc = "main"
    /\ \E component_name \in ComponentNames, component_record \in ComponentRecords :
          LET start == [raised |-> FALSE, all |-> ALL, all_basedir_relpaths |-> <<>>,
                        files |-> {}, matchers |-> <<>>]
              end == ArtifactLoop(start, component_name, component_record)
          IN  /\ call' = [cmd |-> "artifact", component |-> component_name,
                          component_record |-> component_record]
              /\ pc' = IF end.raised THEN "raised" ELSE "returned"
              /\ ALL' = end.all
              /\ output_dir' =
                    [files |-> end.files,
                     manifest |-> IF end.raised THEN None
                                  ELSE Str(ManifestText(end.all_basedir_relpaths))]
              /\ matchers' = end.matchers
    /\ UNCHANGED <<loaded, system, root_dir, archive>>

-----------------------------------------------------------------------------
(* do_artifact_archive *)

\* The lines of the manifest with the blank ones kept.
ManifestRelpaths_keep_blank(text) == SplitLines(text)

\* manifest_path.read_text().splitlines(), blank lines skipped
ManifestRelpaths(text) == SelectSeq(SplitLines(text), NonEmpty)

\* The entries of one manifest line: every file of pm.all under the arcname
\* f"{relpath}/{subpath}".
ArchivePayload(i, dir, k, relpath, rank) ==
    LET source_dir == PathParts(relpath)
        all == WalkAll(dir.files, source_dir, rank)
    IN  IF ~DirExists(dir.files, source_dir) THEN <<>>
        ELSE [j \in 1..Len(all) |->
                [arcname |-> relpath \o <<Slash>> \o RelpathStr(all[j]),
                 artifact |-> i, line |-> k, src |-> source_dir \o all[j]]]

\* The entries of one artifact directory with the manifest added last.
ArchiveSection_manifest_last(i, dir, rank) ==
    LET relpaths == ManifestRelpaths(dir.manifest.v)
        manifest_entry == [arcname |-> ManifestName, artifact |-> i, line |-> 0,
                           src |-> <<ManifestName>>]
    IN  Flatten([k \in 1..Len(relpaths) |->
                    ArchivePayload(i, dir, k, relpaths[k], rank)])
        \o <<manifest_entry>>

\* The entries of one artifact directory: the manifest first.
ArchiveSection(i, dir, rank) ==
    LET relpaths == ManifestRelpaths(dir.manifest.v)
        manifest_entry == [arcname |-> ManifestName, artifact |-> i, line |-> 0,
                           src |-> <<ManifestName>>]
    IN  <<manifest_entry>>
        \o Flatten([k \in 1..Len(relpaths) |->
                        ArchivePayload(i, dir, k, relpaths[k], rank)])

RECURSIVE ArchiveLoop(_, _, _, _)
ArchiveLoop(entries, i, artifact, rank) ==
    IF i > Len(artifact) THEN [raised |-> FALSE, entries |-> entries]
    ELSE IF artifact[i].manifest.t = "none"   \* read_text of a missing manifest
         THEN [raised |-> TRUE, entries |-> entries]
         ELSE ArchiveLoop(entries \o ArchiveSection(i, artifact[i], rank),
                          i + 1, artifact, rank)

do_artifact_archive ==
    /\ pc = "main"
    /\ \E artifact \in ArtifactLists, rank \in ScanRanks :
          LET end == ArchiveLoop(<<>>, 1, artifact, rank)
          IN  /\ call' = [cmd |-> "artifact-archive", artifact |-> artifact,
                          scandir |-> rank]
              /\ pc' = IF end.raised THEN "raised" ELSE "returned"
              /\ archive' = end.entries
    /\ UNCHANGED <<loaded, ALL, system, root_dir, output_dir, matchers>>

-----------------------------------------------------------------------------
(* The module body and main(). *)

Register ==
    /\ pc = "load"
    /\ loaded < Len(ModuleBody)
    /\ ModuleBody[loaded + 1].op = "new"
    /\ LET s == ModuleBody[loaded + 1]
           c == ComponentDefaults_init(ALL, s.name, s.includes, s.excludes)
       IN  /\ ALL' = c.all
           /\ loaded' = loaded + 1
           /\ pc' = IF c.raised THEN "raised" ELSE "load"
    /\ UNCHANGED <<system, root_dir, call, output_dir, matchers, archive>>

Extend ==
    /\ pc = "load"
    /\ loaded < Len(ModuleBody)
    /\ ModuleBody[loaded + 1].op = "extend"
    /\ LET s == ModuleBody[loaded + 1]
       IN  /\ ALL' = ExtendExcludes(ALL, s.dst, s.src)
           /\ loaded' = loaded + 1
           /\ pc' = IF loaded + 1 = Len(ModuleBody) THEN "main" ELSE "load"
    /\ UNCHANGED <<system, root_dir, call, output_dir, matchers, archive>>

\* main() returns; the next command line is dispatched with its own arguments
\* and output paths.
MainReturn ==
    /\ pc \in {"returned", "raised"}
    /\ call.cmd # "none"
    /\ pc' = "main"
    /\ call' = NoCall
    /\ output_dir' = NoOutput
    /\ matchers' = <<>>
    /\ archive' = <<>>
    /\ UNCHANGED <<loaded, ALL, system, root_dir>>

Init ==
    /\ pc = "load"
    /\ loaded = 0
    /\ ALL = EmptyRegistry
    /\ system \in Systems
    /\ root_dir \in RootTrees
    /\ call = NoCall
    /\ output_dir = NoOutput
    /\ matchers = <<>>
    /\ archive = <<>>

Next == Register \/ Extend \/ do_artifact \/ do_artifact_archive \/ MainReturn

Spec == Init /\ [][Next]_vars

-----------------------------------------------------------------------------
(* The manifest written by do_artifact (lines 227-229) read back as           *)
(* do_artifact_archive reads it (lines 240-246), on lists of strings.         *)

ManifestStrings == {<<>>, S_a, S_a_b, S_d, S_a_nl_b, S_a_cr}

ManifestLists == UNION {[1..n -> ManifestStrings] : n \in 0..MaxManifestLen}

WriteManifest ==
    /\ pc = "write"
    /\ output_dir' = [files |-> {}, manifest |-> Str(ManifestText(call.relpaths))]
    /\ pc' = "read"
    /\ UNCHANGED <<loaded, ALL, system, root_dir, call, matchers, archive>>

ReadManifest ==
    /\ pc = "read"
    /\ archive' = ManifestRelpaths(output_dir.manifest.v)
    /\ pc' = "done"
    /\ UNCHANGED <<loaded, ALL, system, root_dir, call, output_dir, matchers>>

InitManifest ==
    /\ pc = "write"
    /\ loaded = 0
    /\ ALL = EmptyRegistry
    /\ system = S_Linux
    /\ root_dir = {}
    /\ call \in {[cmd |-> "manifest", relpaths |-> l] : l \in ManifestLists}
    /\ output_dir = NoOutput
    /\ matchers = <<>>
    /\ archive = <<>>

NextManifest == WriteManifest \/ ReadManifest

SpecManifest == InitManifest /\ [][NextManifest]_vars

-----------------------------------------------------------------------------
(* Properties. *)

ArtifactEnded == call.cmd = "artifact" /\ pc \in {"returned", "raised"}
ArtifactReturned == call.cmd = "artifact" /\ pc = "returned"
ArchiveReturned == call.cmd = "artifact-archive" /\ pc = "returned"

\* An `optional` value that makes the entry optional on the running platform:
\* true, or a platform name (or a list with one) equal to the platform's name
\* up to case.
OptionalHere(v) ==
    \/ v.t = "bool" /\ v.v
    \/ v.t = "str" /\ Lower(v.v) = Lower(system)
    \/ v.t = "list" /\ \E i \in 1..Len(v.v) : Lower(v.v[i]) = Lower(system)

Missing(item) == ~DirExists(root_dir, PathParts(item.relpath))

\* The declared entries that are not skipped, in descriptor order.
Contributing ==
    SelectSeq(call.component_record,
              LAMBDA item : ~(OptionalHere(item.record.optional) /\ Missing(item)))

Under(relpath, dest) == IsPrefix(PathParts(relpath), dest)

\* C1: the entries of the archive are one section per artifact directory in
\* input order; a section is the artifact's manifest entry followed by the
\* files of each manifest line in line order, each file once under the name
\* <line>/<path below the line's directory>.
C1_ArchiveSections ==
    ArchiveReturned =>
        /\ archive # <<>>
        /\ archive[1].line = 0
        /\ \A i \in 1..Len(call.artifact) :
              Cardinality({n \in 1..Len(archive) :
                              archive[n].artifact = i /\ archive[n].line = 0}) = 1
        /\ \A n \in 1..Len(archive) :
              /\ archive[n].artifact \in 1..Len(call.artifact)
              /\ archive[n].line = 0 => archive[n].arcname = ManifestName
        /\ \A m, n \in 1..Len(archive) :
              m < n =>
                 \/ archive[m].artifact < archive[n].artifact
                 \/ /\ archive[m].artifact = archive[n].artifact
                    /\ archive[m].line <= archive[n].line
                    /\ archive[n].line # 0
        /\ \A i \in 1..Len(call.artifact) :
              LET dir == call.artifact[i]
                  lines == ManifestRelpaths(dir.manifest.v)
                  at(k) == {n \in 1..Len(archive) :
                               archive[n].artifact = i /\ archive[n].line = k}
              IN  /\ \A n \in 1..Len(archive) :
                        archive[n].artifact = i => archive[n].line \in 0..Len(lines)
                  /\ \A k \in 1..Len(lines) :
                        /\ {archive[n].src : n \in at(k)}
                             = {f \in dir.files : IsPrefix(PathParts(lines[k]), f)}
                        /\ Cardinality(at(k))
                             = Cardinality({f \in dir.files :
                                               IsPrefix(PathParts(lines[k]), f)})
                        /\ \A n \in at(k) :
                              archive[n].arcname
                                = lines[k] \o <<Slash>>
                                  \o RelpathStr(SubSeq(archive[n].src,
                                                       Len(PathParts(lines[k])) + 1,
                                                       Len(archive[n].src)))

\* An archive of two artifact directories in which one artifact contributes
\* files of two manifest lines.
C1_Witness ==
    /\ ArchiveReturned
    /\ Len(call.artifact) >= 2
    /\ \E m, n \in 1..Len(archive) :
          /\ archive[m].artifact = 1 /\ archive[n].artifact = 2
          /\ archive[m].line > 0 /\ archive[n].line > 0
    /\ \E m, n \in 1..Len(archive) :
          /\ archive[m].artifact = archive[n].artifact
          /\ 0 < archive[m].line /\ archive[m].line < archive[n].line

C3_MissingRequiredRaises ==
    (ArtifactEnded /\ \E i \in 1..Len(call.component_record) :
                          /\ Missing(call.component_record[i])
                          /\ ~OptionalHere(call.component_record[i].record.optional))
    => pc = "raised" /\ output_dir.manifest.t = "none"

\* A call that raised on a directory whose `optional` names other platforms.
C3_Witness ==
    /\ call.cmd = "artifact"
    /\ pc = "raised"
    /\ \E i \in 1..Len(call.component_record) :
          LET item == call.component_record[i]
          IN  /\ Missing(item)
              /\ item.record.optional.t \in {"str", "list"}
              /\ ~OptionalHere(item.record.optional)

\* C4: once the module body has run, the excludes of dev, lib and run contain
\* the includes of the other two and of doc.
C4_CrossLayering ==
    pc # "load" =>
        /\ Range(ALL["lib"].includes) \cup Range(ALL["run"].includes)
              \cup Range(ALL["doc"].includes) \subseteq Range(ALL["dev"].excludes)
        /\ Range(ALL["dev"].includes) \cup Range(ALL["run"].includes)
              \cup Range(ALL["doc"].includes) \subseteq Range(ALL["lib"].excludes)
        /\ Range(ALL["dev"].includes) \cup Range(ALL["lib"].includes)
              \cup Range(ALL["doc"].includes) \subseteq Range(ALL["run"].excludes)

C4_Witness ==
    /\ pc = "main"
    /\ loaded = Len(ModuleBody)
    /\ ALL["doc"].includes # <<>>
    /\ ALL["dev"].excludes # <<>>

\* The relative paths probed: every path of one to three of these segments.
ProbeSegments == {S_a, S_b, S_include, S_x_so, S_y_a}

ProbePaths ==
    {RelpathStr(parts) : parts \in UNION {[1..n -> ProbeSegments] : n \in 1..3}}

DefaultSelected(name, relpath) ==
    Selected(PatternMatcher(ALL[name].includes, ALL[name].excludes, <<>>), relpath)

\* C5: with the registry as the module body leaves it, no relative path is
\* selected by the default patterns of two of dev, lib and run.
C5_NoSharedDefault ==
    pc = "main" =>
        \A p \in ProbePaths :
            /\ ~(DefaultSelected("dev", p) /\ DefaultSelected("lib", p))
            /\ ~(DefaultSelected("dev", p) /\ DefaultSelected("run", p))
            /\ ~(DefaultSelected("lib", p) /\ DefaultSelected("run", p))

\* A path that matches includes of dev and of lib, and paths selected by each.
C5_Witness ==
    /\ pc = "main"
    /\ \E p \in ProbePaths :
          MatchesAny(ALL["dev"].includes, p) /\ MatchesAny(ALL["lib"].includes, p)
    /\ \E p \in ProbePaths : DefaultSelected("dev", p)
    /\ \E p \in ProbePaths : DefaultSelected("lib", p)

\* C6: the payload entries of one manifest line are added in the lexical
\* order of their names, whatever the order of the directory walk.
C6_PayloadSorted ==
    ArchiveReturned =>
        \A m, n \in 1..Len(archive) :
            (/\ m < n
             /\ archive[m].artifact = archive[n].artifact
             /\ archive[m].line = archive[n].line)
            => StrLess(archive[m].arcname, archive[n].arcname)

\* A manifest line is well formed when it is not empty and has no line break.
WellFormedLine(s) == s # <<>> /\ \A i \in 1..Len(s) : s[i] \notin {NL, CR}

\* C7: a list of well formed relative paths written as a manifest and read
\* back is the same list.
C7_ManifestRoundTrip ==
    (pc = "done" /\ \A i \in 1..Len(call.relpaths) : WellFormedLine(call.relpaths[i]))
    => archive = call.relpaths

C7_Witness ==
    /\ pc = "done"
    /\ Len(call.relpaths) = 2
    /\ call.relpaths[1] # call.relpaths[2]
    /\ \A i \in 1..Len(call.relpaths) : WellFormedLine(call.relpaths[i])
    /\ archive = call.relpaths

\* C8: after the module body no step changes the registry, and the registered
\* names are dbg, dev, lib, run and doc.
C8_RegistryImmutable ==
    [][pc # "load" =>
          /\ ALL' = ALL
          /\ DOMAIN ALL' = {"dbg", "dev", "lib", "run", "doc"}]_vars

\* do_artifact has looked up the defaults of a name that is not registered.
C8_Witness ==
    /\ ArtifactReturned
    /\ call.component \notin {"dbg", "dev", "lib", "run", "doc"}
    /\ \E i \in 1..Len(call.component_record) :
          call.component_record[i].record.default_patterns.t = "none"
    /\ matchers # <<>>

RegisteredDefaults(name) ==
    IF name \in DOMAIN ALL THEN ALL[name] ELSE [includes |-> <<>>, excludes |-> <<>>]

UsesDefaults(record) ==
    record.default_patterns.t = "none" \/ record.default_patterns = Bool(TRUE)

\* The list a pattern field stands for, as claimed: a scalar is a one-element
\* list, an absent field the empty list.
FieldList(v) ==
    CASE v.t = "none" -> <<>>
      [] v.t = "str" -> <<v.v>>
      [] v.t = "list" -> v.v

\* The same, with the empty string standing for the empty list.
FieldListNonEmpty(v) == IF v.t = "str" /\ v.v = <<>> THEN <<>> ELSE FieldList(v)

MatcherLists(AsList(_)) ==
    ArtifactEnded =>
        \A i \in 1..Len(matchers) :
            LET record == Contributing[i].record
                defaults == RegisteredDefaults(call.component)
            IN  /\ matchers[i].relpath = Contributing[i].relpath
                /\ matchers[i].includes
                     = AsList(record.include)
                       \o (IF UsesDefaults(record) THEN defaults.includes ELSE <<>>)
                /\ matchers[i].excludes
                     = AsList(record.exclude)
                       \o (IF UsesDefaults(record) THEN defaults.excludes ELSE <<>>)
                /\ matchers[i].force_includes = AsList(record.force_include)

\* C9 as claimed: every scalar string field is a one-element list.
C9_EffectivePatterns_Claimed == MatcherLists(FieldList)

\* C9: the lists handed to the matcher are the explicit lists followed by the
\* component defaults unless default_patterns is false; a non-empty scalar is a
\* one-element list, an absent field or an empty string the empty list.
C9_EffectivePatterns == MatcherLists(FieldListNonEmpty)

\* A matcher built from scalar, list and empty-string fields, with and without
\* the defaults of a registered component.
C9_Witness ==
    /\ ArtifactEnded
    /\ call.component = "dev"
    /\ \E i, j \in 1..Len(matchers) :
          /\ Contributing[i].record.include.t = "str"
          /\ Contributing[i].record.include.v # <<>>
          /\ Contributing[i].record.default_patterns = Bool(TRUE)
          /\ Len(matchers[i].includes) > 1
          /\ Contributing[j].record.include = Str(<<>>)
          /\ Contributing[j].record.default_patterns = Bool(FALSE)
          /\ matchers[j].includes = <<>>

Dests(i) == {e.dest : e \in matchers[i].copied}

PrefixRelated(r, s) ==
    IsPrefix(PathParts(r), PathParts(s)) \/ IsPrefix(PathParts(s), PathParts(r))

\* C10 as claimed: any two base directories write disjoint destinations.
C10_Disjoint_Claimed ==
    ArtifactReturned =>
        \A i, j \in 1..Len(matchers) : i # j => Dests(i) \cap Dests(j) = {}

\* C10: every file copied for a base directory is in the output tree with the
\* same source after all base directories were copied; two base directories
\* of which neither is a path prefix of the other write disjoint destinations.
C10_Accumulate ==
    ArtifactReturned =>
        /\ \A i \in 1..Len(matchers) : matchers[i].copied \subseteq output_dir.files
        /\ \A i, j \in 1..Len(matchers) :
              (i # j /\ ~PrefixRelated(matchers[i].relpath, matchers[j].relpath))
              => Dests(i) \cap Dests(j) = {}

\* A base directory copied after one it lies below, both writing one
\* destination.
C10_Witness ==
    /\ ArtifactReturned
    /\ Len(matchers) = 2
    /\ matchers[1].relpath = S_a
    /\ matchers[2].relpath = S_a_b
    /\ Dests(1) \cap Dests(2) # {}
    /\ Dests(1) \ Dests(2) # {}

=============================================================================
